---- MODULE Spec2Model ----
(***************************************************************************)
(* Model of the N-SIM environmental control program: main() in main.py     *)
(* drives one Controller (src/devices/controller.py) over two Voegtlin     *)
(* mass flow controllers, a DewMaster hygrometer and a temperature probe,  *)
(* and hands each cycle's Reading to a DataLogger and a DynamicPlotter.    *)
(*                                                                         *)
(* The program is one thread.  pc is the statement main() is at, exc the   *)
(* exception that is propagating (if any).  Devices, the operator and the  *)
(* SIGINT signal are the environment: their outcomes are chosen with \E.   *)
(*                                                                         *)
(* Names the controller imports resolve to the driver classes of the       *)
(* repository: DewMasterHygrometer is the DewMaster class of               *)
(* src/devices/dewmaster.py; TemperatureProbe is not in the repository and *)
(* is modelled from the specification.  A method the controller calls that *)
(* the driver class does not define raises AttributeError at the call, as  *)
(* Python does.                                                            *)
(***************************************************************************)
EXTENDS Integers, Sequences, FiniteSets, TLC

(* ------------------------------ bounds --------------------------------- *)
\* monitoring cycles the model lets the loop start
MaxCycles == 2
\* SIGINT signals the environment delivers in one run
MaxSigint == 1
\* frames the animation draws while plotter.start() runs the GUI event loop
MaxTimerFires == 1
\* capacity of the plot deques (config 'max_plot_points')
max_points == 2

(* --------------------------- program data ------------------------------ *)
Dev == {"dry", "wet", "hyg", "probe"}
MFCs == {"dry", "wet"}

\* configuration keys connect_devices looks at
ConfigKeys ==
  {"dry_mfc_port", "wet_mfc_port", "hygrometer_port", "t_probe", "t_probe_port"}

\* the key whose presence makes connect_devices create and connect a driver
ConfigKeyOf(d) ==
  CASE d = "dry" -> "dry_mfc_port"
    [] d = "wet" -> "wet_mfc_port"
    [] d = "hyg" -> "hygrometer_port"
    [] d = "probe" -> "t_probe"

\* Optional values: None is <<>>, a value v is <<v>>
None == <<>>
Some(v) == <<v>>

Channels ==
  {"dry_flow", "dry_setpoint", "wet_flow", "wet_setpoint", "cell_temp",
   "ambient_temp", "dewpoint_temp", "relative_humidity"}

\* Controller.log_fields
log_fields == {"timestamp"} \cup Channels

\* the channels start_monitoring formats with :.2f / :.1f
DisplayedChannels ==
  {"dry_flow", "dry_setpoint", "wet_flow", "wet_setpoint",
   "ambient_temp", "dewpoint_temp", "relative_humidity"}

\* the deques of DynamicPlotter
PlotBuffers ==
  {"timestamps", "dry_flow", "wet_flow", "dry_setpoint", "wet_setpoint",
   "ambient_temp", "dewpoint_temp", "relative_humidity"}

\* what --dry-flow / --wet-flow can be: not given, or a flow in ml/min
FlowArgs == {None, Some(5)}

VARIABLES
  cfg,          \* keys present in the configuration
  args,         \* command line: dry_flow, wet_flow (None or a value)
  pc,           \* the statement the program is at
  exc,          \* the exception propagating, "none" when there is none
  errAt,        \* the statement at which exc was raised
  obj,          \* obj[d]: the controller attribute of driver d is not None
  handle,       \* handle[d]: the driver's transport: "none", "open", "closed"
  connRet,      \* connRet[d]: outcome of connect(): "na", "true", "false", "raised"
  success,      \* local variable of connect_devices
  connectResult,\* what connect_devices did: "pending", "true", "false", "raised"
  response,     \* the operator's answer to "Continue anyway?": "na", "y", "n"
  running,      \* Controller.running
  caller,       \* who runs read_all_sensors: "loop" or "timer"
  cycle,        \* iterations of the monitoring loop started
  now,          \* logical clock behind datetime.now()
  data,         \* the Reading being built / handed off
  current_file, \* DataLogger.current_file: None or the file's id
  fieldnames,   \* DataLogger.fieldnames: None or the schema
  records,      \* rows of the current log file
  startCalls,   \* history: calls of start_new_log
  produced,     \* history: Readings read_all_sensors returned to the loop
  is_running,   \* DynamicPlotter.is_running
  animation,    \* the FuncAnimation timer: "none", "running", "stopped"
  buf,          \* the plot deques
  timerFires,   \* history: frames the animation drew
  ops,          \* history: driver operations the program invoked
  setCalls,     \* history: outcome of set_flow_rates per controller
  loopExit,     \* the statement at which the monitoring loop was left
  sigints       \* SIGINT signals delivered

\* the state of main() and the objects it builds
programVars ==
  <<cfg, args, pc, exc, errAt, obj, handle, connRet, success, connectResult,
    response, running, caller, cycle, now, data, current_file, fieldnames,
    records, startCalls, produced, is_running, animation, buf, timerFires,
    ops, setCalls, loopExit, sigints>>

\* A DewMaster driver used on its own, as dewmaster.py's context manager and
\* the script src/dewmaster.py use it
VARIABLES
  ser,          \* DewMaster.ser: "none", "open" or "closed"
  rx,           \* the lines readline() delivers within the read window
  tx,           \* what the driver wrote to the port
  lines,        \* the list _read_lines returned
  pollPc,       \* where poll() is: "idle", "write", "read", "scan",
                \* "returned", "raised"
  pollExc,      \* the exception poll() raised, "none" when there is none
  pollRet       \* what poll() returned: None or Some(dict)

pollVars == <<ser, rx, tx, lines, pollPc, pollExc, pollRet>>

\* VogtlinMFC._write_float and _read_float used on their own, against two
\* holding registers
VARIABLES
  value,        \* the float32 written, as its four bytes, most significant first
  swapW,        \* the swap argument of _write_float
  swapR,        \* the swap argument of _read_float
  regs,         \* the two holding registers, in address order
  reversed,     \* the register order was reversed between write and read
  decoded,      \* what _read_float returned: None or Some(four bytes)
  codecPc       \* "idle", "write", "bus", "done"

codecVars == <<value, swapW, swapR, regs, reversed, decoded, codecPc>>

\* the timing of start_monitoring's loop on its own
VARIABLES
  interval,     \* start_monitoring's argument, in clock ticks
  clock,        \* time.time(), in ticks
  starts,       \* history: the time at which each iteration of the loop began
  loopPc        \* "idle", "top", "body", "sleep"

timingVars == <<interval, clock, starts, loopPc>>

\* a flow controller's holding registers, accessed through _read_float and
\* _write_float at the base addresses of VogtlinMFC.REG
VARIABLES
  mem,          \* the device's holding registers, by address
  quantity,     \* the quantity of the last access, "none" before the first
  touched,      \* the addresses the last access transferred
  readBack,     \* what the last _read_float returned: None or Some(four bytes)
  accesses      \* history: number of accesses made

regVars == <<mem, quantity, touched, readBack, accesses>>

\* a DynamicPlotter used on its own: add_data_point and update_plots called
\* directly, on the buffers buf
VARIABLES
  axes,         \* what the axes show: None as _setup_plots left them, or
                \* Some(the series drawn by update_plots)
  frames,       \* history: calls of update_plots
  points        \* history: the Readings given to add_data_point, in order

drawVars == <<axes, frames, points>>

\* a DataLogger used on its own: start_new_log and log_data called directly,
\* on current_file, fieldnames and records
VARIABLES
  logCalls,     \* history: calls of log_data
  logExc        \* how the last call of log_data ended: "none" or the
                \* exception it raised

logVars == <<logCalls, logExc>>

\* the state of the components exercised on their own
unitVars == <<pollVars, codecVars, timingVars, regVars, drawVars, logVars>>

vars == <<programVars, unitVars>>

\* groups used in UNCHANGED
inputVars == <<cfg, args>>
devVars == <<obj, handle, connRet>>
loggerVars == <<current_file, fieldnames, records, startCalls>>
plotterVars == <<is_running, animation, buf, timerFires>>
cycleVars == <<cycle, now, data, produced>>
\* what Raise assigns
flowVars == <<pc, exc, errAt, caller, loopExit, connectResult>>

\* read_all_sensors' fresh dictionary: timestamp and every channel None
EmptyReading(t) ==
  [f \in log_fields |-> IF f = "timestamp" THEN Some(t) ELSE None]

(* -------------------------- exception flow ----------------------------- *)
\* statements inside the try block of start_monitoring
MonTry ==
  {"loop_top", "read_dry", "read_wet", "read_hyg", "read_probe",
   "log", "plot", "display"}
\* statements of start_monitoring outside its try (still inside main's try)
MainTry ==
  {"mon_log_start", "mon_plot_start", "mon_plot_pause", "mon_finally"}
\* controller.stop() in main's finally
StopPcs == {"stop_dry", "stop_wet", "stop_hyg", "stop_probe"}
\* statements of main before its try
ConnectPcs == {"connect_dry", "connect_wet", "connect_hyg", "connect_probe"}
PrePcs == ConnectPcs \cup {"prompt", "set_flows"}
\* statements of read_all_sensors
ReadPcs == {"read_dry", "read_wet", "read_hyg", "read_probe"}

\* the statement a call is made from: a timer frame runs inside plotter.start
Site == IF caller = "timer" THEN "mon_plot_pause" ELSE pc

\* where control goes when an exception is raised at statement p:
\* the finally of start_monitoring, else main's finally, else out of main
Handler(p) ==
  IF p \in MonTry THEN "mon_finally"
  ELSE IF p \in MainTry THEN "stop_dry"
  ELSE "done"

\* raise exception e at the current statement: it unwinds to the nearest
\* finally (a frame of the animation is left on the way)
Raise(e) ==
  /\ exc' = e
  /\ errAt' = pc
  /\ pc' = Handler(Site)
  /\ caller' = "loop"
  /\ loopExit' = IF Site \in MonTry THEN pc ELSE loopExit
  /\ connectResult' = IF pc \in ConnectPcs THEN "raised" ELSE connectResult

\* an Exception raised by read_all_sensors.  In the monitoring loop it
\* propagates.  In a frame of the animation it reaches matplotlib's callback
\* registry, which prints it (a GUI framework is running) or re-raises it
\* (headless), depending on the backend.
Throw(e) ==
  IF caller = "timer"
  THEN \E reraised \in BOOLEAN :
         IF reraised THEN Raise(e)
         ELSE /\ pc' = "mon_plot_pause"
              /\ caller' = "loop"
              /\ UNCHANGED <<exc, errAt, loopExit, connectResult>>
  ELSE Raise(e)

\* no poll() is in progress
PollIdle ==
  /\ ser = "none"
  /\ rx = <<>>
  /\ tx = <<>>
  /\ lines = <<>>
  /\ pollPc = "idle"
  /\ pollExc = "none"
  /\ pollRet = None

\* no register transfer is in progress
CodecIdle ==
  /\ value = <<0, 0, 0, 0>>
  /\ swapW = FALSE
  /\ swapR = FALSE
  /\ regs = <<0, 0>>
  /\ reversed = FALSE
  /\ decoded = None
  /\ codecPc = "idle"

\* the loop is not being timed
TimingIdle ==
  /\ interval = 1
  /\ clock = 0
  /\ starts = <<>>
  /\ loopPc = "idle"

\* the highest register address of the model's device
LastRegister == 16

\* no register has been accessed
RegIdle ==
  /\ mem = [a \in 0..LastRegister |-> 0]
  /\ quantity = "none"
  /\ touched = {}
  /\ readBack = None
  /\ accesses = 0

\* the plotter as its constructor leaves it
DrawIdle ==
  /\ axes = None
  /\ frames = 0
  /\ points = <<>>

\* log_data has not been called
LogIdle ==
  /\ logCalls = 0
  /\ logExc = "none"

UnitIdle ==
  PollIdle /\ CodecIdle /\ TimingIdle /\ RegIdle /\ DrawIdle /\ LogIdle

ProgramInit ==
  /\ cfg \in SUBSET ConfigKeys
  /\ args \in [{"dry_flow", "wet_flow"} -> FlowArgs]
  /\ pc = "connect_dry"
  /\ exc = "none"
  /\ errAt = "none"
  /\ obj = [d \in Dev |-> FALSE]
  /\ handle = [d \in Dev |-> "none"]
  /\ connRet = [d \in Dev |-> "na"]
  /\ success = TRUE
  /\ connectResult = "pending"
  /\ response = "na"
  /\ running = FALSE
  /\ caller = "loop"
  /\ cycle = 0
  /\ now = 0
  /\ data = EmptyReading(0)
  /\ current_file = None
  /\ fieldnames = None
  /\ records = <<>>
  /\ startCalls = 0
  /\ produced = <<>>
  /\ is_running = FALSE
  /\ animation = "none"
  /\ buf = [b \in PlotBuffers |-> <<>>]
  /\ timerFires = 0
  /\ ops = <<>>
  /\ setCalls = [m \in MFCs |-> "na"]
  /\ loopExit = "none"
  /\ sigints = 0

Init == ProgramInit /\ UnitIdle

\* main() has not been started: the state in which a component runs alone
ProgramIdle ==
  /\ ProgramInit
  /\ cfg = {}
  /\ args = [a \in {"dry_flow", "wet_flow"} |-> None]

(* ----------------------------- drivers --------------------------------- *)
\* a driver operation invoked: by whom, in which cycle, and during the
\* read_all_sensors call stamped `now` (0 before the first call)
Op(d, o) == [dev |-> d, op |-> o, by |-> caller, cyc |-> cycle, at |-> now]

\* outcomes of opening and setting up a serial port
ConnectOutcomes == {"ok", "fail_open", "fail_setup"}

\* VogtlinMFC.connect: minimalmodbus.Instrument opens the port; any exception
\* is caught and False returned.  instrument stays None when the open failed
\* and stays set (port open) when a later setup statement failed.
VogtlinMFC_connect_handle(outcome) ==
  IF outcome = "fail_open" THEN "none" ELSE "open"

VogtlinMFC_connect_ret(outcome) ==
  IF outcome = "ok" THEN "true" ELSE "false"

\* DewMaster.connect: serial.Serial opens the port; any exception is re-raised
\* as RuntimeError.  ser stays None when the open failed and stays set (port
\* open) when reset_input_buffer / reset_output_buffer failed.
DewMaster_connect_handle(outcome) ==
  IF outcome = "fail_open" THEN "none" ELSE "open"

DewMaster_connect_ret(outcome) ==
  IF outcome = "ok" THEN "true" ELSE "raised"

\* TemperatureProbe.connect: same contract shape as the other drivers,
\* true on success and false on failure
TemperatureProbe_connect_ret(outcome) ==
  IF outcome = "ok" THEN "true" ELSE "false"

(* -------------------------- connect_devices ---------------------------- *)
\* connect_devices, one flow controller block: create the driver and connect
ConnectMFC(d, next) ==
  IF ConfigKeyOf(d) \notin cfg
  THEN /\ pc' = next
       /\ UNCHANGED <<devVars, success, ops>>
  ELSE \E outcome \in ConnectOutcomes :
         /\ obj' = [obj EXCEPT ![d] = TRUE]
         /\ handle' = [handle EXCEPT ![d] = VogtlinMFC_connect_handle(outcome)]
         /\ connRet' = [connRet EXCEPT ![d] = VogtlinMFC_connect_ret(outcome)]
         /\ ops' = Append(ops, Op(d, "connect"))
         /\ success' = IF VogtlinMFC_connect_ret(outcome) = "true"
                       THEN success ELSE FALSE
         /\ pc' = next

ConnectDry ==
  /\ pc = "connect_dry"
  /\ ConnectMFC("dry", "connect_wet")
  /\ UNCHANGED <<inputVars, unitVars, exc, errAt, connectResult, response, running,
                 caller, cycleVars, loggerVars, plotterVars, setCalls,
                 loopExit, sigints>>

ConnectWet ==
  /\ pc = "connect_wet"
  /\ ConnectMFC("wet", "connect_hyg")
  /\ UNCHANGED <<inputVars, unitVars, exc, errAt, connectResult, response, running,
                 caller, cycleVars, loggerVars, plotterVars, setCalls,
                 loopExit, sigints>>

\* connect_devices, hygrometer block
ConnectHyg ==
  /\ pc = "connect_hyg"
  /\ IF "hygrometer_port" \notin cfg
     THEN /\ pc' = "connect_probe"
          /\ UNCHANGED <<devVars, ops, exc, errAt, caller, loopExit,
                         connectResult>>
     ELSE \E outcome \in ConnectOutcomes :
            /\ obj' = [obj EXCEPT !["hyg"] = TRUE]
            /\ handle' = [handle EXCEPT !["hyg"] = DewMaster_connect_handle(outcome)]
            /\ connRet' = [connRet EXCEPT !["hyg"] = DewMaster_connect_ret(outcome)]
            /\ ops' = Append(ops, Op("hyg", "connect"))
            /\ IF DewMaster_connect_ret(outcome) = "raised"
               THEN Raise("RuntimeError")
               ELSE /\ pc' = "connect_probe"
                    /\ UNCHANGED <<exc, errAt, caller, loopExit, connectResult>>
  /\ UNCHANGED <<inputVars, unitVars, success, response, running, cycleVars, loggerVars,
                 plotterVars, setCalls, sigints>>

\* connect_devices, temperature probe block and the return
ConnectProbe ==
  /\ pc = "connect_probe"
  /\ IF "t_probe" \notin cfg
     THEN /\ pc' = "prompt"
          /\ connectResult' = IF success THEN "true" ELSE "false"
          /\ UNCHANGED <<devVars, ops, success, exc, errAt, caller, loopExit>>
     ELSE IF "t_probe_port" \notin cfg
     THEN /\ Raise("KeyError")
          /\ UNCHANGED <<devVars, ops, success>>
     ELSE \E outcome \in {"ok", "fail_open"} :
            /\ obj' = [obj EXCEPT !["probe"] = TRUE]
            /\ handle' = [handle EXCEPT !["probe"] =
                            IF outcome = "ok" THEN "open" ELSE "none"]
            /\ connRet' = [connRet EXCEPT !["probe"] =
                             TemperatureProbe_connect_ret(outcome)]
            /\ ops' = Append(ops, Op("probe", "connect"))
            /\ success' = IF outcome = "ok" THEN success ELSE FALSE
            /\ connectResult' = IF success' THEN "true" ELSE "false"
            /\ pc' = "prompt"
            /\ UNCHANGED <<exc, errAt, caller, loopExit>>
  /\ UNCHANGED <<inputVars, unitVars, response, running, cycleVars, loggerVars,
                 plotterVars, setCalls, sigints>>

(* -------------------------------- main --------------------------------- *)
\* main: "if not controller.connect_devices()": ask the operator; anything
\* but 'y' returns from main
Prompt ==
  /\ pc = "prompt"
  /\ IF connectResult = "true"
     THEN /\ pc' = "set_flows"
          /\ UNCHANGED response
     ELSE \E r \in {"y", "n"} :
            /\ response' = r
            /\ pc' = IF r = "y" THEN "set_flows" ELSE "done"
  /\ UNCHANGED <<inputVars, unitVars, exc, errAt, devVars, success, connectResult,
                 running, caller, cycleVars, loggerVars, plotterVars, ops,
                 setCalls, loopExit, sigints>>

\* a set_flow_rates that does not test whether a value was given
SetFlowRates_unguarded ==
  /\ pc = "set_flows"
  /\ IF obj["dry"]
     THEN /\ setCalls' = [setCalls EXCEPT !["dry"] = "AttributeError"]
          /\ Raise("AttributeError")
     ELSE IF obj["wet"]
     THEN /\ setCalls' = [setCalls EXCEPT !["wet"] = "AttributeError"]
          /\ Raise("AttributeError")
     ELSE /\ pc' = "mon_log_start"
          /\ UNCHANGED <<setCalls, exc, errAt, caller, loopExit, connectResult>>
  /\ UNCHANGED <<inputVars, unitVars, devVars, success, response, running, cycleVars,
                 loggerVars, plotterVars, ops, sigints>>

\* main: set_flow_rates when a flow is given.  Controller.set_flow_rates calls
\* set_flow on the driver, which VogtlinMFC does not define (its setpoint
\* write is set_flow_setpoint): the call raises AttributeError.
SetFlowRates ==
  /\ pc = "set_flows"
  /\ IF args["dry_flow"] # None /\ obj["dry"]
     THEN /\ setCalls' = [setCalls EXCEPT !["dry"] = "AttributeError"]
          /\ Raise("AttributeError")
     ELSE IF args["wet_flow"] # None /\ obj["wet"]
     THEN /\ setCalls' = [setCalls EXCEPT !["wet"] = "AttributeError"]
          /\ Raise("AttributeError")
     ELSE /\ pc' = "mon_log_start"
          /\ UNCHANGED <<setCalls, exc, errAt, caller, loopExit, connectResult>>
  /\ UNCHANGED <<inputVars, unitVars, devVars, success, response, running, cycleVars,
                 loggerVars, plotterVars, ops, sigints>>

(* ------------------------ logger and plotter --------------------------- *)
\* a bounded buffer that refuses the new item when it is full
DequeAppend_keep_oldest(q, x) ==
  IF Len(q) >= max_points THEN q ELSE Append(q, x)

\* collections.deque(maxlen=max_points).append
DequeAppend(q, x) ==
  IF Len(q) >= max_points THEN Tail(q) \o <<x>> ELSE Append(q, x)

\* what add_data_point appends to deque b for Reading r
PlotValue(b, r) == IF b = "timestamps" THEN r["timestamp"] ELSE r[b]

\* DynamicPlotter.add_data_point
add_data_point(r) == [b \in PlotBuffers |-> DequeAppend(buf[b], PlotValue(b, r))]

\* a log_data that writes the row twice
log_data_twice(r) == Append(Append(records, r), r)

\* DataLogger.log_data: the row appended to the current file
log_data(r) == Append(records, r)

(* -------------------------- start_monitoring --------------------------- *)
\* start_monitoring: logger.start_new_log(self.log_fields)
MonLogStart ==
  /\ pc = "mon_log_start"
  /\ fieldnames' = Some(log_fields)
  /\ current_file' = Some(startCalls + 1)
  /\ records' = <<>>
  /\ startCalls' = startCalls + 1
  /\ pc' = "mon_plot_start"
  /\ UNCHANGED <<inputVars, unitVars, exc, errAt, devVars, success, connectResult,
                 response, running, caller, cycleVars, plotterVars, ops,
                 setCalls, loopExit, sigints>>

\* start_monitoring: plotter.start(data_source_callback=self.read_all_sensors)
\* creates the animation and enters plt.pause, which runs the GUI event loop
PlotterStart ==
  /\ pc = "mon_plot_start"
  /\ is_running' = TRUE
  /\ animation' = "running"
  /\ pc' = "mon_plot_pause"
  /\ UNCHANGED <<inputVars, unitVars, exc, errAt, devVars, success, connectResult,
                 response, running, caller, cycleVars, loggerVars, buf,
                 timerFires, ops, setCalls, loopExit, sigints>>

\* read_all_sensors reusing the dictionary of the previous call
BeginRead_reuse ==
  /\ now' = now + 1
  /\ data' = [data EXCEPT !["timestamp"] = Some(now + 1)]
  /\ pc' = "read_dry"

\* read_all_sensors begins: a fresh dictionary stamped with the current time
BeginRead ==
  /\ now' = now + 1
  /\ data' = EmptyReading(now + 1)
  /\ pc' = "read_dry"

\* a frame of the animation (update_with_data) while plt.pause runs the event
\* loop: it calls the data source callback, which is read_all_sensors
TimerFrame ==
  /\ pc = "mon_plot_pause"
  /\ animation = "running"
  /\ timerFires < MaxTimerFires
  /\ timerFires' = timerFires + 1
  /\ caller' = "timer"
  /\ BeginRead
  /\ UNCHANGED <<inputVars, unitVars, exc, errAt, devVars, success, connectResult,
                 response, running, cycle, produced, loggerVars, is_running,
                 animation, buf, ops, setCalls, loopExit, sigints>>

\* plt.pause returns, plotter.start returns, self.running = True
MonSetRunning ==
  /\ pc = "mon_plot_pause"
  /\ running' = TRUE
  /\ pc' = "loop_top"
  /\ UNCHANGED <<inputVars, unitVars, exc, errAt, devVars, success, connectResult,
                 response, caller, cycleVars, loggerVars, plotterVars, ops,
                 setCalls, loopExit, sigints>>

\* while self.running: the next cycle starts with read_all_sensors
LoopTop ==
  /\ pc = "loop_top"
  /\ cycle < MaxCycles
  /\ IF running
     THEN /\ cycle' = cycle + 1
          /\ BeginRead
     ELSE /\ pc' = "mon_finally"
          /\ UNCHANGED <<cycle, now, data>>
  /\ loopExit' = IF running THEN loopExit ELSE "loop_top"
  /\ UNCHANGED <<inputVars, unitVars, exc, errAt, devVars, success, connectResult,
                 response, running, caller, produced, loggerVars, plotterVars,
                 ops, setCalls, sigints>>

(* --------------------------- read_all_sensors -------------------------- *)
\* outcomes of get_flow() followed by get_setpoint() on an open instrument
ReadOutcomes == {"ok", "flow_fails", "setpoint_fails"}

\* a failed get_flow issued a second time
MFC_read_ops_retry(d, outcome) ==
  IF outcome = "flow_fails"
  THEN <<Op(d, "get_flow"), Op(d, "get_flow")>>
  ELSE <<Op(d, "get_flow"), Op(d, "get_setpoint")>>

\* the two reads issued setpoint first
MFC_read_ops_setpoint_first(d, outcome) ==
  IF outcome = "flow_fails"
  THEN <<Op(d, "get_flow")>>
  ELSE <<Op(d, "get_setpoint"), Op(d, "get_flow")>>

\* the register reads issued by get_flow / get_setpoint under an outcome
MFC_read_ops(d, outcome) ==
  IF outcome = "flow_fails"
  THEN <<Op(d, "get_flow")>>
  ELSE <<Op(d, "get_flow"), Op(d, "get_setpoint")>>

\* the Reading's keys for a flow controller
FlowChannel(d) == IF d = "dry" THEN "dry_flow" ELSE "wet_flow"
SetpointChannel(d) == IF d = "dry" THEN "dry_setpoint" ELSE "wet_setpoint"

\* read_all_sensors, one flow controller block.  The block runs when the
\* driver object exists, connected or not.  _read_float dereferences
\* self.instrument: None raises AttributeError; a failed or timed out
\* read_registers raises out of get_flow / get_setpoint.  A value read is
\* identified by the index of its read in ops.
ReadMFC(d, next) ==
  IF ~obj[d]
  THEN /\ pc' = next
       /\ UNCHANGED <<data, ops, exc, errAt, caller, loopExit, connectResult>>
  ELSE IF handle[d] = "none"
  THEN /\ ops' = Append(ops, Op(d, "get_flow"))
       /\ Throw("AttributeError")
       /\ UNCHANGED data
  ELSE \E outcome \in ReadOutcomes :
         /\ ops' = ops \o MFC_read_ops(d, outcome)
         /\ IF outcome = "ok"
            THEN /\ data' = [data EXCEPT ![FlowChannel(d)] = Some(Len(ops) + 1),
                                         ![SetpointChannel(d)] = Some(Len(ops) + 2)]
                 /\ pc' = next
                 /\ UNCHANGED <<exc, errAt, caller, loopExit, connectResult>>
            ELSE /\ data' = IF outcome = "setpoint_fails"
                            THEN [data EXCEPT ![FlowChannel(d)] = Some(Len(ops) + 1)]
                            ELSE data
                 /\ Throw("IOError")

ReadDry ==
  /\ pc = "read_dry"
  /\ ReadMFC("dry", "read_wet")
  /\ UNCHANGED <<inputVars, unitVars, devVars, success, response, running, cycle, now,
                 produced, loggerVars, plotterVars, setCalls, sigints>>

ReadWet ==
  /\ pc = "read_wet"
  /\ ReadMFC("wet", "read_hyg")
  /\ UNCHANGED <<inputVars, unitVars, devVars, success, response, running, cycle, now,
                 produced, loggerVars, plotterVars, setCalls, sigints>>

\* read_all_sensors, hygrometer block: self.hygrometer.get_readings(), which
\* DewMaster does not define (its read is poll)
ReadHyg ==
  /\ pc = "read_hyg"
  /\ IF obj["hyg"]
     THEN Throw("AttributeError")
     ELSE /\ pc' = "read_probe"
          /\ UNCHANGED <<exc, errAt, caller, loopExit, connectResult>>
  /\ UNCHANGED <<inputVars, unitVars, devVars, success, response, running, cycleVars,
                 loggerVars, plotterVars, ops, setCalls, sigints>>

\* read_all_sensors, probe block and the return.  The block reads
\* self.T_probe, an attribute the Controller does not have.  The Reading
\* returns to the monitoring loop, or to the animation frame, which adds it
\* to the plot (update_with_data: add_data_point, update_plots).
ReadProbe ==
  /\ pc = "read_probe"
  /\ IF obj["probe"]
     THEN /\ Throw("AttributeError")
          /\ UNCHANGED <<produced, buf>>
     ELSE /\ IF caller = "loop"
             THEN /\ produced' = Append(produced, data)
                  /\ pc' = "log"
                  /\ UNCHANGED buf
             ELSE /\ buf' = add_data_point(data)
                  /\ pc' = "mon_plot_pause"
                  /\ UNCHANGED produced
          /\ caller' = "loop"
          /\ UNCHANGED <<exc, errAt, loopExit, connectResult>>
  /\ UNCHANGED <<inputVars, unitVars, devVars, success, response, running, cycle, now,
                 data, loggerVars, is_running, animation, timerFires, ops,
                 setCalls, sigints>>

(* ------------------------- the monitoring loop ------------------------- *)
\* self.logger.log_data(data)
Log ==
  /\ pc = "log"
  /\ IF current_file = None \/ fieldnames = None
     THEN /\ Raise("ValueError")
          /\ UNCHANGED records
     ELSE /\ records' = log_data(data)
          /\ pc' = "plot"
          /\ UNCHANGED <<exc, errAt, caller, loopExit, connectResult>>
  /\ UNCHANGED <<inputVars, unitVars, devVars, success, response, running, cycleVars,
                 current_file, fieldnames, startCalls, plotterVars, ops,
                 setCalls, sigints>>

\* self.plotter.add_data_point(data)
Plot ==
  /\ pc = "plot"
  /\ buf' = add_data_point(data)
  /\ pc' = "display"
  /\ UNCHANGED <<inputVars, unitVars, exc, errAt, devVars, success, connectResult,
                 response, running, caller, cycleVars, loggerVars, is_running,
                 animation, timerFires, ops, setCalls, loopExit, sigints>>

\* the Reading can be printed: no displayed channel is None
Displayable(r) == \A c \in DisplayedChannels : r[c] # None

\* the prints of the current readings and time.sleep(interval): formatting
\* None with :.2f raises TypeError
Display ==
  /\ pc = "display"
  /\ IF Displayable(data)
     THEN /\ pc' = "loop_top"
          /\ UNCHANGED <<exc, errAt, caller, loopExit, connectResult>>
     ELSE Raise("TypeError")
  /\ UNCHANGED <<inputVars, unitVars, devVars, success, response, running, cycleVars,
                 loggerVars, plotterVars, ops, setCalls, sigints>>

\* finally of start_monitoring: self.running = False; self.plotter.stop().
\* The exception that led here, if any, goes on to main's finally.
MonFinally ==
  /\ pc = "mon_finally"
  /\ running' = FALSE
  /\ is_running' = FALSE
  /\ animation' = IF animation = "none" THEN "none" ELSE "stopped"
  /\ pc' = "stop_dry"
  /\ UNCHANGED <<inputVars, unitVars, exc, errAt, devVars, success, connectResult,
                 response, caller, cycleVars, loggerVars, buf, timerFires, ops,
                 setCalls, loopExit, sigints>>

(* ------------------------ stop / disconnect_devices -------------------- *)
\* outcomes of closing an open serial port
CloseOutcomes == {"ok", "fails"}

\* disconnect_devices, one block: "if self.<driver>: self.<driver>.disconnect()".
\* VogtlinMFC.disconnect and DewMaster.disconnect close the port when the
\* transport object exists and is open; nothing catches a failing close.
Disconnect(d, next) ==
  IF obj[d] /\ handle[d] = "open"
  THEN \E outcome \in CloseOutcomes :
         /\ ops' = Append(ops, Op(d, "disconnect"))
         /\ IF outcome = "ok"
            THEN /\ handle' = [handle EXCEPT ![d] = "closed"]
                 /\ pc' = next
                 /\ UNCHANGED <<exc, errAt, caller, loopExit, connectResult>>
            ELSE /\ Raise("IOError")
                 /\ UNCHANGED handle
  ELSE /\ pc' = next
       /\ UNCHANGED <<handle, ops, exc, errAt, caller, loopExit, connectResult>>

\* stop(): self.running = False, then disconnect_devices
StopDry ==
  /\ pc = "stop_dry"
  /\ running' = FALSE
  /\ Disconnect("dry", "stop_wet")
  /\ UNCHANGED <<inputVars, unitVars, obj, connRet, success, response, cycleVars,
                 loggerVars, plotterVars, setCalls, sigints>>

StopWet ==
  /\ pc = "stop_wet"
  /\ Disconnect("wet", "stop_hyg")
  /\ UNCHANGED <<inputVars, unitVars, obj, connRet, success, response, running,
                 cycleVars, loggerVars, plotterVars, setCalls, sigints>>

StopHyg ==
  /\ pc = "stop_hyg"
  /\ Disconnect("hyg", "stop_probe")
  /\ UNCHANGED <<inputVars, unitVars, obj, connRet, success, response, running,
                 cycleVars, loggerVars, plotterVars, setCalls, sigints>>

\* TemperatureProbe.disconnect: releases the transport when it is open
TemperatureProbe_disconnect_handle(h) == IF h = "open" THEN "closed" ELSE h

\* disconnect_devices, probe block; then stop() returns and main ends (with
\* the exception that led to its finally, if any)
StopProbe ==
  /\ pc = "stop_probe"
  /\ IF obj["probe"]
     THEN /\ handle' = [handle EXCEPT !["probe"] =
                          TemperatureProbe_disconnect_handle(handle["probe"])]
          /\ ops' = Append(ops, Op("probe", "disconnect"))
     ELSE UNCHANGED <<handle, ops>>
  /\ pc' = "done"
  /\ UNCHANGED <<inputVars, unitVars, exc, errAt, obj, connRet, success, connectResult,
                 response, running, caller, cycleVars, loggerVars, plotterVars,
                 setCalls, loopExit, sigints>>

(* ------------------------------- SIGINT -------------------------------- *)
\* signal_handler: sys.exit(0) raises SystemExit in the main thread at the
\* statement it is executing
Sigint ==
  /\ pc # "done"
  /\ sigints < MaxSigint
  /\ sigints' = sigints + 1
  /\ Raise("SystemExit")
  /\ UNCHANGED <<inputVars, unitVars, devVars, success, response, running, cycleVars,
                 loggerVars, plotterVars, ops, setCalls>>

Next ==
  \/ ConnectDry \/ ConnectWet \/ ConnectHyg \/ ConnectProbe
  \/ Prompt \/ SetFlowRates
  \/ MonLogStart \/ PlotterStart \/ TimerFrame \/ MonSetRunning
  \/ LoopTop \/ ReadDry \/ ReadWet \/ ReadHyg \/ ReadProbe
  \/ Log \/ Plot \/ Display
  \/ MonFinally \/ StopDry \/ StopWet \/ StopHyg \/ StopProbe
  \/ Sigint

Spec == Init /\ [][Next]_vars

\* the steps the interpreter takes by itself: every statement of main runs
\* once it is reached (the operator answers the prompt); a signal or a frame
\* of the animation may or may not come
Progress ==
  \/ ConnectDry \/ ConnectWet \/ ConnectHyg \/ ConnectProbe
  \/ Prompt \/ SetFlowRates
  \/ MonLogStart \/ PlotterStart \/ MonSetRunning
  \/ LoopTop \/ ReadDry \/ ReadWet \/ ReadHyg \/ ReadProbe
  \/ Log \/ Plot \/ Display
  \/ MonFinally \/ StopDry \/ StopWet \/ StopHyg \/ StopProbe

FairSpec == Spec /\ WF_vars(Progress)

(* ---------------------- DewMaster.poll on its own --------------------- *)
\* lines the read window may hold
MaxLines == 2

\* the characters the pattern's class [-\d.] accepts (two digits stand for ten)
NumChars == {"-", ".", "0", "2"}
Digits == {"0", "2"}

\* the numerals put after a label: "2.0", "-2" and a bare "-"
Numerals == {<<"2", ".", "0">>, <<"-", "2">>, <<"-">>}

\* what a line is made of: the date and time stamp, a labelled field
\* "DP = <numeral> C" / "AT = <numeral> C" / "RH = <numeral>", free text
Stamp == [k |-> "stamp", n |-> <<>>]
Text == [k |-> "text", n |-> <<>>]
Field(label, numeral) == [k |-> label, n |-> numeral]

\* a line in the instrument's layout, each part present or not
LineOf(st, dp, at, rh) ==
  (IF st THEN <<Stamp>> ELSE <<>>)
    \o (IF dp = None THEN <<>> ELSE <<Field("DP", dp[1])>>)
    \o (IF at = None THEN <<>> ELSE <<Field("AT", at[1])>>)
    \o (IF rh = None THEN <<>> ELSE <<Field("RH", rh[1])>>)
    \o <<Text>>

\* the lines readline() may deliver: the layout with parts missing or a
\* numeral garbled, a line with its fields out of order, and the empty
\* line of a read that timed out
Lines ==
  {LineOf(st, dp, at, rh) :
     st \in BOOLEAN, dp \in {None} \cup {Some(x) : x \in Numerals},
     at \in {None, Some(<<"2", ".", "0">>)}, rh \in {None, Some(<<"-", "2">>)}}
  \cup {<<Stamp, Field("AT", <<"2">>), Field("DP", <<"2">>),
          Field("RH", <<"2">>)>>}
  \cup {<<>>}

\* index of the first token of kind k after position from, 0 when none
FirstAfter(line, k, from) ==
  LET S == {i \in (from + 1)..Len(line) : line[i].k = k}
  IN IF S = {} THEN 0 ELSE CHOOSE i \in S : \A j \in S : i <= j

\* data_pattern.search(line): the leftmost stamp, then lazily the first DP
\* after it, the first AT after that, the first RH after that.  The groups
\* matched, or None.  (A later stamp or label cannot match where the first
\* one does not: what follows it also follows the first.)
data_pattern_search(line) ==
  LET s == FirstAfter(line, "stamp", 0)
      d == IF s = 0 THEN 0 ELSE FirstAfter(line, "DP", s)
      a == IF d = 0 THEN 0 ELSE FirstAfter(line, "AT", d)
      r == IF a = 0 THEN 0 ELSE FirstAfter(line, "RH", a)
  IN IF r = 0 THEN None
     ELSE Some([dp |-> line[d].n, at |-> line[a].n, rh |-> line[r].n])

\* float(v) for a string over [-\d.]: an optional sign, then digits with at
\* most one point and at least one digit; anything else raises ValueError
float_accepts(v) ==
  LET body == IF v # <<>> /\ v[1] = "-" THEN Tail(v) ELSE v
  IN /\ \A i \in 1..Len(body) : body[i] # "-"
     /\ Cardinality({i \in 1..Len(body) : body[i] = "."}) <= 1
     /\ \E i \in 1..Len(body) : body[i] \in Digits

DigitValue(c) == IF c = "2" THEN 2 ELSE 0

RECURSIVE DigitsValue(_)
DigitsValue(q) ==
  IF q = <<>> THEN 0
  ELSE 10 * DigitsValue(SubSeq(q, 1, Len(q) - 1)) + DigitValue(q[Len(q)])

\* the number float(v) returns, as <<sign, digits, digits after the point>>
float_value(v) ==
  LET neg == v[1] = "-"
      body == IF neg THEN Tail(v) ELSE v
      P == {i \in 1..Len(body) : body[i] = "."}
      point == IF P = {} THEN Len(body) + 1 ELSE CHOOSE i \in P : TRUE
      digits == SelectSeq(body, LAMBDA c : c \in Digits)
  IN <<IF neg THEN -1 ELSE 1, DigitsValue(digits), Len(body) + 1 - point
        - (IF P = {} THEN 0 ELSE 1)>>

\* _write("P"): the command, then a carriage return
PollWrite ==
  /\ pollPc = "write"
  /\ IF ser # "open"
     THEN /\ pollExc' = "RuntimeError"
          /\ pollPc' = "raised"
          /\ UNCHANGED tx
     ELSE /\ tx' = tx \o <<"P", "\r">>
          /\ pollPc' = "read"
          /\ UNCHANGED pollExc
  /\ UNCHANGED <<programVars, logVars, drawVars, regVars, codecVars, timingVars, ser, rx, lines, pollRet>>

\* _read_lines(1): the non-empty lines of the window, in arrival order
PollReadLines ==
  /\ pollPc = "read"
  /\ lines' = IF ser = "none" THEN <<>>
              ELSE SelectSeq(rx, LAMBDA l : l # <<>>)
  /\ pollPc' = "scan"
  /\ UNCHANGED <<programVars, logVars, drawVars, regVars, codecVars, timingVars, ser, rx, tx, pollExc, pollRet>>

\* poll's for loop: the first line the pattern matches is converted and
\* returned, None when no line matches
PollScan ==
  /\ pollPc = "scan"
  /\ LET M == {i \in 1..Len(lines) : data_pattern_search(lines[i]) # None}
     IN IF M = {}
        THEN /\ pollRet' = None
             /\ pollPc' = "returned"
             /\ UNCHANGED pollExc
        ELSE LET m == data_pattern_search(
                        lines[CHOOSE i \in M : \A j \in M : i <= j])[1]
             IN IF \A f \in {"dp", "at", "rh"} : float_accepts(m[f])
                THEN /\ pollRet' = Some([f \in {"dp", "at", "rh"} |->
                                           float_value(m[f])])
                     /\ pollPc' = "returned"
                     /\ UNCHANGED pollExc
                ELSE /\ pollExc' = "ValueError"
                     /\ pollPc' = "raised"
                     /\ UNCHANGED pollRet
  /\ UNCHANGED <<programVars, logVars, drawVars, regVars, codecVars, timingVars, ser, rx, tx, lines>>

RECURSIVE SeqsUpTo(_, _)
SeqsUpTo(S, n) ==
  IF n = 0 THEN {<<>>}
  ELSE LET R == SeqsUpTo(S, n - 1)
       IN R \cup {Append(q, x) : q \in R, x \in S}

\* poll() is called on a driver whose port is open or closed, and the
\* instrument delivers any window of lines
PollInit ==
  /\ ProgramIdle
  /\ DrawIdle
  /\ LogIdle
  /\ RegIdle
  /\ CodecIdle
  /\ TimingIdle
  /\ ser \in {"open", "closed"}
  /\ rx \in SeqsUpTo(Lines, MaxLines)
  /\ tx = <<>>
  /\ lines = <<>>
  /\ pollPc = "write"
  /\ pollExc = "none"
  /\ pollRet = None

PollNext == PollWrite \/ PollReadLines \/ PollScan

PollSpec == PollInit /\ [][PollNext]_vars

(* --------------- VogtlinMFC register codec on its own ------------------ *)
\* byte values the float32 patterns are built from: 0x00, 0x01, 0x3F, 0x80, 0xFF
SampleBytes == {0, 1, 63, 128, 255}

\* the float32 patterns written: 0.0, -0.0, 1.0, subnormals, NaNs and others
Patterns == [1..4 -> SampleBytes]

\* struct.unpack('>HH', raw_bytes): two big-endian 16-bit words
unpack_HH(raw) == <<raw[1] * 256 + raw[2], raw[3] * 256 + raw[4]>>

\* struct.pack('>HH', *regs)
pack_HH(r) == <<r[1] \div 256, r[1] % 256, r[2] \div 256, r[2] % 256>>

\* regs[::-1]
Reverse2(r) == <<r[2], r[1]>>

\* the registers _write_float hands to write_registers
_write_float(v, swap) ==
  IF swap THEN Reverse2(unpack_HH(v)) ELSE unpack_HH(v)

\* _read_float that does not undo the swap
_read_float_unswapped(r, swap) == pack_HH(r)

\* the bytes _read_float unpacks as its float
_read_float(r, swap) ==
  IF swap THEN pack_HH(Reverse2(r)) ELSE pack_HH(r)

CodecWrite ==
  /\ codecPc = "write"
  /\ regs' = _write_float(value, swapW)
  /\ codecPc' = "bus"
  /\ UNCHANGED <<programVars, logVars, drawVars, regVars, pollVars, timingVars, value, swapW, swapR,
                 reversed, decoded>>

\* the two registers are exchanged by hand (a device with the other word order)
CodecReverse ==
  /\ codecPc = "bus"
  /\ ~reversed
  /\ regs' = Reverse2(regs)
  /\ reversed' = TRUE
  /\ UNCHANGED <<programVars, logVars, drawVars, regVars, pollVars, timingVars, value, swapW, swapR,
                 decoded, codecPc>>

CodecRead ==
  /\ codecPc = "bus"
  /\ decoded' = Some(_read_float(regs, swapR))
  /\ codecPc' = "done"
  /\ UNCHANGED <<programVars, logVars, drawVars, regVars, pollVars, timingVars, value, swapW, swapR,
                 regs, reversed>>

\* any pattern is written and read back with any pair of swap arguments
CodecInit ==
  /\ ProgramIdle
  /\ DrawIdle
  /\ LogIdle
  /\ RegIdle
  /\ PollIdle
  /\ TimingIdle
  /\ value \in Patterns
  /\ swapW \in BOOLEAN
  /\ swapR \in BOOLEAN
  /\ regs = <<0, 0>>
  /\ reversed = FALSE
  /\ decoded = None
  /\ codecPc = "write"

CodecNext == CodecWrite \/ CodecReverse \/ CodecRead

CodecSpec == CodecInit /\ [][CodecNext]_vars

(* ------------------- VogtlinMFC.REG and its accesses ------------------- *)
\* accesses made in one run
MaxAccesses == 2

\* the keys of VogtlinMFC.REG
Quantities ==
  {"flow", "temperature", "total_flow", "setpoint", "analog_input",
   "valve_signal", "alarm", "error", "control_function", "ramp"}

\* a register map in which setpoint shares a register with total_flow
REG_crowded(q) ==
  CASE q = "flow" -> 0
    [] q = "temperature" -> 2
    [] q = "total_flow" -> 4
    [] q = "setpoint" -> 5
    [] q = "analog_input" -> 8
    [] q = "valve_signal" -> 10
    [] q = "alarm" -> 12
    [] q = "error" -> 13
    [] q = "control_function" -> 14
    [] q = "ramp" -> 15

\* VogtlinMFC.REG: the base address of each quantity
REG(q) ==
  CASE q = "flow" -> 0
    [] q = "temperature" -> 2
    [] q = "total_flow" -> 4
    [] q = "setpoint" -> 6
    [] q = "analog_input" -> 8
    [] q = "valve_signal" -> 10
    [] q = "alarm" -> 12
    [] q = "error" -> 13
    [] q = "control_function" -> 14
    [] q = "ramp" -> 15

\* the quantities the driver's methods read or write
AccessedQuantities ==
  {"flow", "temperature", "total_flow", "valve_signal", "setpoint"}

\* the floats written: 1.0 with a low bit set, and -0.0
WrittenValues == {<<63, 128, 0, 1>>, <<128, 0, 0, 0>>}

\* _write_float(REG[q], v): write_registers(address, regs) with two registers
RegWrite ==
  /\ accesses < MaxAccesses
  /\ \E q \in Quantities, v \in WrittenValues :
       LET r == _write_float(v, FALSE)
       IN /\ mem' = [mem EXCEPT ![REG(q)] = r[1], ![REG(q) + 1] = r[2]]
          /\ quantity' = q
          /\ touched' = {REG(q), REG(q) + 1}
  /\ accesses' = accesses + 1
  /\ UNCHANGED <<programVars, logVars, drawVars, pollVars, codecVars, timingVars, readBack>>

\* _read_float(REG[q]): read_registers(address, 2)
RegRead ==
  /\ accesses < MaxAccesses
  /\ \E q \in Quantities :
       /\ readBack' = Some(_read_float(<<mem[REG(q)], mem[REG(q) + 1]>>, FALSE))
       /\ quantity' = q
       /\ touched' = {REG(q), REG(q) + 1}
  /\ accesses' = accesses + 1
  /\ UNCHANGED <<programVars, logVars, drawVars, pollVars, codecVars, timingVars, mem>>

RegInit ==
  /\ ProgramIdle
  /\ DrawIdle
  /\ LogIdle
  /\ PollIdle
  /\ CodecIdle
  /\ TimingIdle
  /\ RegIdle

RegNext == RegWrite \/ RegRead

RegSpec == RegInit /\ [][RegNext]_vars

(* ------------- the timing of the monitoring loop on its own ------------ *)
\* the longest sampling interval, in clock ticks
MaxInterval == 2
\* iterations of the loop that are timed
MaxTimedCycles == 4

\* while self.running: an iteration begins
TimedLoopTop ==
  /\ loopPc = "top"
  /\ Len(starts) < MaxTimedCycles
  /\ starts' = Append(starts, clock)
  /\ loopPc' = "body"
  /\ UNCHANGED <<programVars, logVars, drawVars, regVars, pollVars, codecVars, interval, clock>>

\* read_all_sensors, log_data, add_data_point and the prints take d ticks,
\* d no longer than the interval; the iteration is one whose Reading has
\* every displayed channel, so that the prints do not raise
TimedBody ==
  /\ loopPc = "body"
  /\ \E d \in 0..interval : clock' = clock + d
  /\ loopPc' = "sleep"
  /\ UNCHANGED <<programVars, logVars, drawVars, regVars, pollVars, codecVars, interval, starts>>

\* time.sleep(interval)
TimedSleep ==
  /\ loopPc = "sleep"
  /\ clock' = clock + interval
  /\ loopPc' = "top"
  /\ UNCHANGED <<programVars, logVars, drawVars, regVars, pollVars, codecVars, interval, starts>>

\* start_monitoring(interval) reaches its loop at time 0
TimingInit ==
  /\ ProgramIdle
  /\ DrawIdle
  /\ LogIdle
  /\ RegIdle
  /\ PollIdle
  /\ CodecIdle
  /\ interval \in 1..MaxInterval
  /\ clock = 0
  /\ starts = <<>>
  /\ loopPc = "top"

TimingNext == TimedLoopTop \/ TimedBody \/ TimedSleep

TimingSpec == TimingInit /\ [][TimingNext]_vars

(* --------------------- DynamicPlotter on its own ----------------------- *)
\* calls of add_data_point in one run
MaxAdds == 4
\* calls of update_plots in one run
MaxFrames == 2

\* the values a channel of a Reading given to the plotter may hold
PlottedValues == {None, Some(7)}

\* an update_plots that clears the axes before looking at the buffers
update_plots_clear_first(b, ax) == Some(b)

\* DynamicPlotter.update_plots: nothing when no timestamp is buffered,
\* otherwise the axes are cleared and the buffered series drawn
update_plots(b, ax) == IF Len(b["timestamps"]) = 0 THEN ax ELSE Some(b)

\* the other state of main, which a plotter used on its own leaves alone
notPlotterVars ==
  <<cfg, args, pc, exc, errAt, obj, handle, connRet, success, connectResult,
    response, running, caller, cycle, data, current_file, fieldnames,
    records, startCalls, produced, is_running, animation, timerFires, ops,
    setCalls, loopExit, sigints>>

\* add_data_point(data) with a Reading stamped with the current time
DrawAdd ==
  /\ Len(points) < MaxAdds
  /\ \E v \in PlottedValues :
       LET r == [EmptyReading(now + 1) EXCEPT !["dry_flow"] = v]
       IN /\ buf' = add_data_point(r)
          /\ points' = Append(points, r)
  /\ now' = now + 1
  /\ UNCHANGED <<notPlotterVars, pollVars, codecVars, timingVars, regVars,
                 logVars, axes, frames>>

\* update_plots(frame)
DrawUpdate ==
  /\ frames < MaxFrames
  /\ axes' = update_plots(buf, axes)
  /\ frames' = frames + 1
  /\ UNCHANGED <<programVars, pollVars, codecVars, timingVars, regVars,
                 logVars, points>>

DrawInit ==
  /\ ProgramIdle
  /\ PollIdle
  /\ CodecIdle
  /\ TimingIdle
  /\ RegIdle
  /\ DrawIdle
  /\ LogIdle

DrawNext == DrawAdd \/ DrawUpdate

DrawSpec == DrawInit /\ [][DrawNext]_vars

(* ----------------------- DataLogger on its own ------------------------- *)
\* calls of start_new_log in one run
MaxStarts == 2
\* calls of log_data in one run
MaxLogCalls == 3
\* seconds of wall clock in one run
MaxSeconds == 2

\* the field lists given to start_new_log
LogSchemas == {{}, {"dry_flow"}, {"timestamp", "dry_flow"}}

\* the values a field of a logged dictionary may hold
LoggedValues == {None, Some(7)}

\* log_data: data['timestamp'] = datetime.now().isoformat() when the
\* dictionary has no timestamp
with_timestamp(d, t) ==
  [k \in DOMAIN d \cup {"timestamp"} |-> IF k \in DOMAIN d THEN d[k] ELSE Some(t)]

\* csv.DictWriter.writerow accepts the dictionary: no key outside fieldnames
\* (extrasaction is 'raise')
writerow_accepts(fields, d) == DOMAIN d \subseteq fields

\* the row csv.DictWriter.writerow writes: one cell per field name, empty
\* for a missing key as for None
writerow(fields, d) == [f \in fields |-> IF f \in DOMAIN d THEN d[f] ELSE None]

\* log_data's test "not self.current_file or not self.fieldnames": None and
\* the empty list are both false values
log_not_started == current_file = None \/ fieldnames = None \/ fieldnames = Some({})

\* the other state of main, which a logger used on its own leaves alone
notLoggerVars ==
  <<cfg, args, pc, exc, errAt, obj, handle, connRet, success, connectResult,
    response, running, caller, cycle, data, produced, is_running, animation,
    buf, timerFires, ops, setCalls, loopExit, sigints>>

\* a second of wall clock passes
LoggerTick ==
  /\ now < MaxSeconds
  /\ now' = now + 1
  /\ UNCHANGED <<notLoggerVars, loggerVars, unitVars>>

\* start_new_log(fieldnames): the file named after the current second is
\* created or truncated and the header written
LoggerStart ==
  /\ startCalls < MaxStarts
  /\ \E fields \in LogSchemas : fieldnames' = Some(fields)
  /\ current_file' = Some(now)
  /\ records' = <<>>
  /\ startCalls' = startCalls + 1
  /\ UNCHANGED <<notLoggerVars, now, pollVars, codecVars, timingVars, regVars,
                 drawVars, logVars>>

\* log_data(data) with a dictionary whose keys are the field names of the
\* log (any of the field lists when no log has been started)
LoggerLog ==
  /\ logCalls < MaxLogCalls
  /\ logCalls' = logCalls + 1
  /\ \E K \in (IF fieldnames = None THEN LogSchemas ELSE {fieldnames[1]}) :
       \E d \in [K -> LoggedValues] :
         LET row == with_timestamp(d, now)
         IN IF log_not_started \/ ~writerow_accepts(fieldnames[1], row)
            THEN /\ logExc' = "ValueError"
                 /\ UNCHANGED records
            ELSE /\ logExc' = "none"
                 /\ records' = log_data(writerow(fieldnames[1], row))
  /\ UNCHANGED <<notLoggerVars, now, current_file, fieldnames, startCalls,
                 pollVars, codecVars, timingVars, regVars, drawVars>>

LoggerInit ==
  /\ ProgramIdle
  /\ UnitIdle

LoggerNext == LoggerTick \/ LoggerStart \/ LoggerLog

LoggerSpec == LoggerInit /\ [][LoggerNext]_vars

(* ------------------------------ properties ---------------------------- *)
\* the code's test for "this driver is configured"
Configured(d) == ConfigKeyOf(d) \in cfg

\* the driver's connect succeeded and its transport is open
Connected(d) == connRet[d] = "true" /\ handle[d] = "open"

\* the driver's connect was attempted and did not succeed
ConnectFailed(d) == connRet[d] \in {"false", "raised"}

\* exception e, raised at statement p, ended the monitoring loop
LoopLeftBy(e, p) == loopExit = p /\ errAt = p /\ exc = e

\* where the monitoring loop is, or was when it was left ("none": never in it)
LoopAt ==
  IF caller = "timer" THEN "none"
  ELSE IF pc \in MonTry THEN pc
  ELSE loopExit

\* the channels of driver d in the Reading
ChannelsOf(d) ==
  CASE d = "dry" -> {"dry_flow", "dry_setpoint"}
    [] d = "wet" -> {"wet_flow", "wet_setpoint"}
    [] d = "hyg" -> {"ambient_temp", "dewpoint_temp", "relative_humidity"}
    [] d = "probe" -> {"cell_temp"}

\* C1: in a cycle in which the wet flow controller is configured but its
\* connect failed, no error ends the cycle at the wet read, and the Reading
\* returned has wet_flow and wet_setpoint absent and every channel of every
\* other connected device populated.
C1_PartialFailureMerge ==
  (Configured("wet") /\ connRet["wet"] = "false" /\ sigints = 0) =>
    /\ ~LoopLeftBy("AttributeError", "read_wet")
    /\ (pc = "log" =>
          /\ data["wet_flow"] = None
          /\ data["wet_setpoint"] = None
          /\ \A d \in Dev \ {"wet"} :
               Connected(d) => \A c \in ChannelsOf(d) : data[c] # None)

\* C2: a driver read that fails or times out never propagates as an error out
\* of read_all_sensors: the rest of the cycle runs and the Reading is produced.
C2_ReadFailureLocal ==
  sigints = 0 => ~(\E p \in ReadPcs : LoopLeftBy("IOError", p))

\* C3: a cycle whose Reading has an absent channel is logged, plotted and
\* followed by the next cycle: the loop is never left by an error raised for
\* the absent channel.
C3_AbsentChannelCompletes ==
  (sigints = 0 /\ ~Displayable(data)) => ~LoopLeftBy("TypeError", "display")

\* C4: when connect_devices has ended without being interrupted, it returned
\* (no connection error propagated out of it) and connect() was attempted on
\* every configured driver.
C4_ConnectIndependence ==
  (connectResult # "pending" /\ sigints = 0) =>
    /\ connectResult # "raised"
    /\ \A d \in Dev : Configured(d) => connRet[d] # "na"

\* C5: connect_devices returns false exactly when a configured device failed
\* to connect and true otherwise; after false the program goes on exactly
\* when the operator answered 'y'; after a decline nothing is written, no log
\* is started and no cycle runs.
C5_ConnectStatus ==
  /\ (connectResult # "pending" /\ sigints = 0) =>
       /\ (connectResult = "false") <=> (\E d \in Dev : ConnectFailed(d))
       /\ (connectResult = "true") <=> ~(\E d \in Dev : ConnectFailed(d))
  /\ (pc \notin PrePcs \cup {"done"}) =>
       (connectResult = "true" \/ response = "y")
  /\ response = "n" =>
       /\ pc = "done"
       /\ cycle = 0
       /\ startCalls = 0
       /\ \A m \in MFCs : setCalls[m] = "na"

\* main is past its set_flow_rates step, or the step raised
AfterSetFlows ==
  \/ pc \in MainTry \cup MonTry \cup StopPcs
  \/ pc = "done" /\ response # "n" /\ errAt \notin PrePcs
  \/ errAt = "set_flows"

\* C6: set_flow_rates called with a dry and a wet value on two connected
\* controllers raises no error and reports an outcome (success or failure)
\* for each controller.
C6_SetpointIsolation ==
  (/\ args["dry_flow"] # None /\ args["wet_flow"] # None
   /\ Connected("dry") /\ Connected("wet")
   /\ AfterSetFlows
   /\ sigints = 0) =>
    /\ errAt # "set_flows"
    /\ \A m \in MFCs : setCalls[m] \in {"ok", "failed"}

\* C7: an interrupt ends the monitoring loop only at the top of the loop,
\* never in the middle of a cycle.
C7_CooperativeCancel ==
  (\E p \in MonTry : LoopLeftBy("SystemExit", p)) => loopExit = "loop_top"

\* stop() ran to its end
StopReturned ==
  pc = "done" /\ response # "n" /\ errAt \notin PrePcs \cup StopPcs

\* C8: a failing disconnect is not raised out of stop(), and when stop() has
\* returned no driver's transport is open.
C8_Shutdown ==
  /\ ~(exc = "IOError" /\ errAt \in StopPcs)
  /\ StopReturned => \A d \in Dev : handle[d] # "open"

\* C9: start_new_log is called once, with the field schema, before the first
\* log_data; the log holds one record per cycle that has passed its log_data
\* step, each the Reading of its cycle, in cycle order.
C9_LoggingProtocol ==
  /\ startCalls <= 1
  /\ (LoopAt # "none") =>
       /\ startCalls = 1
       /\ fieldnames = Some(log_fields)
       /\ current_file # None
  /\ Len(records) =
       IF LoopAt \in {"plot", "display"} THEN cycle
       ELSE IF LoopAt \in ReadPcs \cup {"log"} THEN cycle - 1
       ELSE IF LoopAt = "loop_top" THEN cycle
       ELSE 0
  /\ Len(records) <= Len(produced)
  /\ \A i \in 1..Len(records) : records[i] = produced[i]
  /\ \A i, j \in 1..Len(records) :
       i < j => records[i]["timestamp"][1] < records[j]["timestamp"][1]

\* C9 witness: a cycle has handed its Reading to the logger
C9_Witness ==
  /\ pc = "plot"
  /\ cycle = 1
  /\ records = <<data>>

\* C10: every point in the plot buffers is the Reading of a monitoring cycle,
\* and after the plot step the buffers hold the logged Readings.
C10_PlottingProtocol ==
  /\ \A i \in 1..Len(buf["timestamps"]) :
       \E j \in 1..Len(produced) :
         \A b \in PlotBuffers : buf[b][i] = PlotValue(b, produced[j])
  /\ (pc = "display" /\ Len(records) <= max_points) =>
       /\ Len(buf["timestamps"]) = Len(records)
       /\ \A i \in 1..Len(records) :
            buf["timestamps"][i] = records[i]["timestamp"]

\* the driver and the driver read that fill channel c in read_all_sensors
ChannelDriver(c) == CHOOSE d \in Dev : c \in ChannelsOf(d)
ChannelRead(c) ==
  CASE c \in {"dry_flow", "wet_flow"} -> "get_flow"
    [] c \in {"dry_setpoint", "wet_setpoint"} -> "get_setpoint"
    [] c \in ChannelsOf("hyg") -> "get_readings"
    [] c = "cell_temp" -> "get_temperature"

\* channel c of Reading r is absent, or holds the value of a read of c's own
\* driver that was issued during the read_all_sensors call that stamped r
FromOwnCall(r, c) ==
  \/ r[c] = None
  \/ /\ r[c][1] \in 1..Len(ops)
     /\ ops[r[c][1]].at = r["timestamp"][1]
     /\ ops[r[c][1]].dev = ChannelDriver(c)
     /\ ops[r[c][1]].op = ChannelRead(c)

\* C11: read_all_sensors starts every call with a fresh Reading, stamped and
\* with all eight channels absent, and in the Reading it builds and returns
\* every channel is absent or holds a value a driver read delivered during
\* that same call: never a value of an earlier call, never a default.
C11_AbsentNeverStale ==
  /\ pc = "read_dry" => data = EmptyReading(now)
  /\ pc \in ReadPcs \cup {"log", "plot", "display"} =>
       /\ data["timestamp"] = Some(now)
       /\ \A c \in Channels : FromOwnCall(data, c)
  /\ \A i \in 1..Len(produced) : \A c \in Channels : FromOwnCall(produced[i], c)

\* C11 witness: the second call of read_all_sensors (the animation's frame
\* made the first and filled the dry channels) has returned a Reading whose
\* dry channels were read anew and whose wet channels are absent
C11_Witness ==
  /\ pc = "log"
  /\ timerFires = 1
  /\ Len(buf["dry_flow"]) = 1
  /\ data["dry_flow"] # None
  /\ data["dry_flow"] # buf["dry_flow"][1]
  /\ data["wet_flow"] = None

\* C12: in a cycle in which the hygrometer is Connected (its poll then being
\* answered by the instrument), the hygrometer read does not end the cycle
\* with an error, and the Reading returned has dewpoint_temp, ambient_temp
\* and relative_humidity populated.
C12_HygrometerReachesReading ==
  (Connected("hyg") /\ sigints = 0) =>
    /\ ~LoopLeftBy("AttributeError", "read_hyg")
    /\ (pc \in {"log", "plot", "display"} =>
          \A c \in ChannelsOf("hyg") : data[c] # None)

\* the line has the stamp and, after it and in this order, the three fields,
\* each with a number
HasAllFields(line) ==
  \E s, d, a, r \in 1..Len(line) :
    /\ s < d /\ d < a /\ a < r
    /\ line[s].k = "stamp"
    /\ line[d].k = "DP" /\ float_accepts(line[d].n)
    /\ line[a].k = "AT" /\ float_accepts(line[a].n)
    /\ line[r].k = "RH" /\ float_accepts(line[r].n)

\* C13: poll on an open port writes exactly one 'P' and one line terminator;
\* it does not raise; when no line of the window has the three fields it
\* returns None, and otherwise it returns the dewpoint, ambient temperature
\* and relative humidity of a line of the window that has all three, no line
\* before which has them.
C13_Poll ==
  ser = "open" =>
    /\ pollPc \in {"read", "scan", "returned", "raised"} => tx = <<"P", "\r">>
    /\ pollPc # "raised"
    /\ pollPc = "returned" =>
         LET H == {i \in 1..Len(rx) : HasAllFields(rx[i])}
         IN IF H = {} THEN pollRet = None
            ELSE /\ pollRet # None
                 /\ \E i \in H :
                      /\ \A j \in H : i <= j
                      /\ \E d, a, r \in 1..Len(rx[i]) :
                           /\ rx[i][d].k = "DP" /\ rx[i][a].k = "AT"
                           /\ rx[i][r].k = "RH"
                           /\ pollRet[1] =
                                [dp |-> float_value(rx[i][d].n),
                                 at |-> float_value(rx[i][a].n),
                                 rh |-> float_value(rx[i][r].n)]

\* C14: a float32 pattern written by _write_float and read back by
\* _read_float with the same swap argument comes back bit for bit, with swap
\* false and with swap true; and a pattern written without swap, its two
\* registers then exchanged by hand, comes back bit for bit when read with
\* swap true.
C14_CodecRoundTrip ==
  codecPc = "done" =>
    /\ (swapW = swapR /\ ~reversed) => decoded = Some(value)
    /\ (~swapW /\ reversed /\ swapR) => decoded = Some(value)

\* C14 witness: a pattern whose two words differ went through swapped
\* registers and came back
C14_Witness ==
  /\ codecPc = "done"
  /\ swapW /\ swapR /\ ~reversed
  /\ value = <<63, 128, 0, 1>>
  /\ regs = <<1, 16256>>
  /\ decoded = Some(value)

\* C15: every iteration of the monitoring loop begins exactly one sampling
\* interval after the one before it, so the i-th begins (i - 1) intervals
\* after the first, whatever time the reads of the iterations took.
C15_NoDrift ==
  \A i \in 1..Len(starts) : starts[i] = starts[1] + (i - 1) * interval

\* C16: connect of a flow controller never raises; every read the controller
\* invokes on a driver is invoked on a driver whose connect succeeded; and in
\* a Reading returned to the loop the channels of every driver that is not
\* Connected are absent.
C16_DeviceLifecycle ==
  (sigints = 0 /\ timerFires = 0) =>
    /\ \A m \in MFCs : connRet[m] # "raised"
    /\ \A i \in 1..Len(ops) :
         ops[i].op \in {"get_flow", "get_setpoint"} =>
           connRet[ops[i].dev] = "true"
    /\ pc = "log" =>
         \A d \in Dev : ~Connected(d) => \A c \in ChannelsOf(d) : data[c] = None

\* C17: no driver operation is invoked from the plotter's timer callback:
\* every driver operation is invoked by main's own sequence of steps.
C17_OnlyLoopReads ==
  \A i \in 1..Len(ops) : ops[i].by # "timer"

\* the driver reads among the operations invoked
ReadOps == {"get_flow", "get_setpoint", "get_readings", "get_temperature"}
IsRead(i) == ops[i].op \in ReadOps

\* the place of a read in the order of read_all_sensors
ReadRank(o) ==
  CASE o.dev = "dry" /\ o.op = "get_flow" -> 1
    [] o.dev = "dry" /\ o.op = "get_setpoint" -> 2
    [] o.dev = "wet" /\ o.op = "get_flow" -> 3
    [] o.dev = "wet" /\ o.op = "get_setpoint" -> 4
    [] o.dev = "hyg" -> 5
    [] o.dev = "probe" -> 6

\* C18: the reads of one read_all_sensors call are issued in the order dry
\* flow, dry setpoint, wet flow, wet setpoint, hygrometer, probe, each at
\* most once, and the reads of two calls are not interleaved; every value
\* in the Reading a cycle hands off was read by the loop in that cycle; and
\* the record the logger appends and the point the plotter appends for a
\* cycle are that cycle's Reading.
C18_CoherentCycle ==
  /\ \A i, j \in 1..Len(ops) :
       (IsRead(i) /\ IsRead(j) /\ i < j) =>
         /\ ops[i].at <= ops[j].at
         /\ ops[i].at = ops[j].at => ReadRank(ops[i]) < ReadRank(ops[j])
  /\ pc \in {"log", "plot", "display"} =>
       \A c \in Channels :
         data[c] # None =>
           /\ data[c][1] \in 1..Len(ops)
           /\ ops[data[c][1]].cyc = cycle
           /\ ops[data[c][1]].by = "loop"
  /\ pc \in {"plot", "display"} =>
       /\ records # <<>>
       /\ records[Len(records)] = data
  /\ pc = "display" =>
       \A b \in PlotBuffers :
         /\ buf[b] # <<>>
         /\ buf[b][Len(buf[b])] = PlotValue(b, data)

\* C18 witness: a cycle that read both flow controllers has handed its
\* Reading to the logger and to the plotter
C18_Witness ==
  /\ pc = "display"
  /\ cycle = 1
  /\ data["dry_setpoint"] # None
  /\ data["wet_setpoint"] # None
  /\ records = <<data>>
  /\ Len(ops) >= 6

\* the attempts of read o on driver d made during the read_all_sensors call
\* stamped t
Attempts(d, o, t) ==
  {i \in 1..Len(ops) : ops[i].dev = d /\ ops[i].op = o /\ ops[i].at = t}

\* C19: during one read_all_sensors call each driver read is attempted at
\* most once, whether it fails or not; once a failed read of a flow
\* controller has ended the loop, that read stays the last read attempted;
\* and at most one setpoint write is issued per flow controller.
C19_SingleAttempt ==
  /\ \A d \in Dev : \A o \in ReadOps : \A t \in 1..now :
       Cardinality(Attempts(d, o, t)) <= 1
  /\ \A m \in MFCs :
       (loopExit = (IF m = "dry" THEN "read_dry" ELSE "read_wet")
          /\ errAt = loopExit /\ exc \in {"IOError", "AttributeError"}) =>
         LET R == {i \in 1..Len(ops) : IsRead(i)}
             last == CHOOSE i \in R : \A j \in R : j <= i
         IN /\ R # {}
            /\ ops[last].dev = m
            /\ ops[last].at = now
            /\ ops[last].by = "loop"
  /\ \A m \in MFCs :
       Cardinality({i \in 1..Len(ops) :
                      ops[i].dev = m /\ ops[i].op = "set_flow_setpoint"}) <= 1

\* C19 witness: the dry flow read failed in the first cycle, the program has
\* ended, and that read was attempted once
C19_Witness ==
  /\ pc = "done"
  /\ loopExit = "read_dry"
  /\ handle["dry"] = "closed"
  /\ timerFires = 0
  /\ Cardinality({i \in 1..Len(ops) :
                    ops[i].dev = "dry" /\ ops[i].op = "get_flow"}) = 1
  /\ \A i \in 1..Len(ops) : ops[i].op # "get_setpoint"

\* C20: when the program has ended, on whatever path, no transport a
\* driver's connect opened is still open.
C20_TransportRelease ==
  pc = "done" => \A d \in Dev : handle[d] # "open"

\* C21: every monitoring cycle that has begun its reads on a connected flow
\* controller comes to an end with the loop back at its stop check (while
\* self.running), whatever the device answers or fails to answer, unless
\* the program is interrupted.
C21_CycleReachesStopCheck ==
  (pc = "read_dry" /\ caller = "loop" /\ Connected("dry"))
    ~> (pc = "loop_top" \/ sigints > 0)

\* the two registers a quantity would occupy: its base and the next
TwoRegisters(q) == {REG(q), REG(q) + 1}

\* C22: a two-register access at the base of any quantity of the register
\* map touches no register of the two-register range of another quantity.
C22_RegisterMap ==
  quantity # "none" =>
    \A q \in Quantities \ {quantity} : touched \cap TwoRegisters(q) = {}

\* the quantities whose base is two registers away from every other base
FloatQuantities ==
  {"flow", "temperature", "total_flow", "setpoint", "analog_input",
   "valve_signal"}

\* C22 amended: the quantities the driver reads or writes are among flow,
\* temperature, total_flow, setpoint, analog_input and valve_signal; a
\* two-register access at the base of one of these six transfers exactly
\* its base and base + 1, which is no base of another quantity and no
\* register of the two-register range of another of the six.  (alarm,
\* error, control_function and ramp have bases one register apart.)
C22_FloatRegisterMap ==
  /\ AccessedQuantities \subseteq FloatQuantities
  /\ quantity \in FloatQuantities =>
       /\ touched = TwoRegisters(quantity)
       /\ Cardinality(touched) = 2
       /\ \A q \in Quantities \ {quantity} : REG(q) \notin touched
       /\ \A q \in FloatQuantities \ {quantity} :
            touched \cap TwoRegisters(q) = {}

\* C22 witness: the setpoint has been written and total_flow, next to it,
\* read back untouched
C22_Witness ==
  /\ quantity = "total_flow"
  /\ mem[6] # 0
  /\ readBack = Some(<<0, 0, 0, 0>>)

\* C23: a call of update_plots made while no point is buffered leaves the
\* buffers, the axes, the running flag and the animation as they were and
\* raises nothing.
C23_UpdateOnEmpty ==
  [][(frames' = frames + 1 /\ buf["timestamps"] = <<>>) =>
       /\ buf' = buf
       /\ axes' = axes
       /\ is_running' = is_running
       /\ animation' = animation
       /\ exc' = exc]_vars

\* C23 witness: update_plots has been called and no point has been added
C23_Witness ==
  /\ frames >= 1
  /\ points = <<>>
  /\ buf["timestamps"] = <<>>
  /\ axes = None

\* disconnect_devices has started
ShutdownBegun == pc \in StopPcs \/ (pc = "done" /\ StopReturned)

\* C24: when the monitoring loop has been left and disconnect_devices has
\* started, the animation's timer is not running; and every driver read in
\* the history was invoked before the first disconnect.
C24_NoAccessAfterShutdown ==
  /\ (loopExit # "none" /\ ShutdownBegun) => animation # "running"
  /\ \A i, j \in 1..Len(ops) :
       (ops[i].op = "disconnect" /\ i < j) => ~IsRead(j)

\* the argument of set_flow_rates that is meant for flow controller m
FlowArgOf(m) == IF m = "dry" THEN "dry_flow" ELSE "wet_flow"

\* C25: set_flow_rates calls nothing on a flow controller whose value is
\* not given or whose driver is not configured, and when set_flow_rates has
\* returned the only driver operations made so far are the connects.
C25_SetpointFrame ==
  /\ \A m \in MFCs :
       (args[FlowArgOf(m)] = None \/ ~Configured(m)) => setCalls[m] = "na"
  /\ pc = "mon_log_start" => \A i \in 1..Len(ops) : ops[i].op = "connect"

\* C25 witness: both controllers are connected, only a dry value was given,
\* set_flow_rates has acted on the dry controller and not on the wet one
C25_Witness ==
  /\ Connected("dry") /\ Connected("wet")
  /\ args["dry_flow"] # None /\ args["wet_flow"] = None
  /\ errAt = "set_flows"
  /\ setCalls["dry"] # "na"
  /\ setCalls["wet"] = "na"

\* C26: after any sequence of add_data_point calls each of the eight
\* buffers holds min(number of points added, max_points) items, and they
\* are the most recently added points, oldest first.
C26_PlotBuffers ==
  \A b \in PlotBuffers :
    /\ Len(buf[b]) =
         IF Len(points) < max_points THEN Len(points) ELSE max_points
    /\ \A i \in 1..Len(buf[b]) :
         buf[b][i] = PlotValue(b, points[Len(points) - Len(buf[b]) + i])

\* C26 witness: more points than the buffers hold have been added, and the
\* oldest point kept is the one added max_points calls ago
C26_Witness ==
  /\ Len(points) > max_points
  /\ Len(buf["timestamps"]) = max_points
  /\ buf["timestamps"][1] = points[Len(points) - max_points + 1]["timestamp"]
  /\ buf["timestamps"][1] # points[1]["timestamp"]

\* C27: in a logger used on its own, a log_data called before any
\* start_new_log raises ValueError, writes no record and leaves the logger's
\* state as it was; a log_data called after a start_new_log appends exactly
\* one record to the current log and leaves the field schema and the current
\* file as they were
C27_LoggerPrecondition ==
  [][logCalls' = logCalls + 1 =>
       IF startCalls = 0
       THEN /\ logExc' = "ValueError"
            /\ UNCHANGED loggerVars
       ELSE /\ Len(records') = Len(records) + 1
            /\ SubSeq(records', 1, Len(records)) = records
            /\ fieldnames' = fieldnames
            /\ current_file' = current_file]_vars

====
